---- MODULE Spec2Model ----
(***************************************************************************)
(* A model of HeadHunt (src/HeadHunt/headhunt.js): the command-line run    *)
(* main(), the page fetch, and the SEOScraper extraction pipeline with its *)
(* nine extractors.                                                        *)
(*                                                                         *)
(* Representation.  A fetched page is a record: `source` is the leading    *)
(* markup text as a sequence of characters (what the doctype regular       *)
(* expression reads), `byteLength` its UTF-8 size, and the elements the    *)
(* cheerio selectors of the program return are kept per tag, in document   *)
(* order: metas, links, scripts, styles, itemscopes, anchors, headings,    *)
(* imgs.  An attribute that is absent is Undef (for sequence-valued        *)
(* attributes: NoAttr).  Attribute values the code inspects character by   *)
(* character (doctype, rel, heading text) are sequences of characters;     *)
(* values it only splits at a separator (og:/twitter: names, itemtype,     *)
(* href) are sequences of tokens, a separator being a token of its own.    *)
(* metadata.timestamp is not modelled: nothing reads it.                   *)
(***************************************************************************)
EXTENDS Integers, Sequences, FiniteSets, TLC

\* ------------------------------------------------------------------ bounds

MaxOg == 3
MaxScripts == 3
MaxAnchors == 3
MaxHeadings == 2
MaxImgs == 3
MaxWords == 3
MaxSheets == 2

\* --------------------------------------------------------- JavaScript values

\* attr() of an absent attribute, or of an empty selection
Undef == "<undefined>"
\* the value the extractors store for a missing field (x || null)
Null == "<null>"
\* an absent sequence-valued attribute
NoAttr == <<"<undefined>">>

\* JavaScript truthiness of a string-or-undefined value
Truthy(v) == v # Undef /\ v # ""
\* JavaScript truthiness of a sequence-modelled string-or-undefined value
TruthySeq(s) == s # NoAttr /\ s # <<>>
\* v || null
OrNull(v) == IF Truthy(v) THEN v ELSE Null
\* s || null, for a sequence-modelled string
OrNullSeq(s) == IF TruthySeq(s) THEN s ELSE <<Null>>

\* String.prototype.startsWith
StartsWith(s, p) == Len(s) >= Len(p) /\ SubSeq(s, 1, Len(p)) = p
\* String.prototype.includes
Includes(s, sub) ==
    \E i \in 1..(Len(s) - Len(sub) + 1) : SubSeq(s, i, i + Len(sub) - 1) = sub

UpperChars == <<"A","B","C","D","E","F","G","H","I","J","K","L","M",
                "N","O","P","Q","R","S","T","U","V","W","X","Y","Z">>
LowerChars == <<"a","b","c","d","e","f","g","h","i","j","k","l","m",
                "n","o","p","q","r","s","t","u","v","w","x","y","z">>
ToLowerChar(c) ==
    IF \E i \in 1..26 : UpperChars[i] = c
    THEN LowerChars[CHOOSE i \in 1..26 : UpperChars[i] = c]
    ELSE c
\* String.prototype.toLowerCase
ToLowerCase(s) == [i \in 1..Len(s) |-> ToLowerChar(s[i])]

\* String.prototype.trim: the text without its leading and trailing blanks
RECURSIVE TrimLeft(_)
TrimLeft(s) == IF s # <<>> /\ Head(s) = " " THEN TrimLeft(Tail(s)) ELSE s
RECURSIVE TrimRight(_)
TrimRight(s) ==
    IF s # <<>> /\ s[Len(s)] = " " THEN TrimRight(SubSeq(s, 1, Len(s) - 1)) ELSE s
Trim(s) == TrimRight(TrimLeft(s))

\* $(selector).attr(a): the attribute of the first element of the selection
FirstAttr(sel, a) == IF sel = <<>> THEN Undef ELSE sel[1][a]

\* all sequences over S of length at most n
SeqsUpTo(S, n) == UNION {[1..k -> S] : k \in 0..n}

\* ---------------------------------------------------------------- categories

\* SEO_CATEGORIES, in the order analyze() runs their extractors
Categories == <<"basic", "open_graph", "twitter", "schema", "technical",
                "links", "headings", "images", "performance">>
CategorySet == {Categories[i] : i \in 1..Len(Categories)}

\* a function (a JavaScript object's own properties) with key k set to v
SetKey(f, k, v) == [x \in (DOMAIN f) \cup {k} |-> IF x = k THEN v ELSE f[x]]
\* an object with no own property
EmptyObject == [x \in {} |-> Undef]

\* the property names every object literal inherits from Object.prototype:
\* obj[k] is a truthy non-array value for them although obj has no own k
ObjectPrototypeKeys == {"constructor", "toString", "valueOf", "hasOwnProperty",
                        "isPrototypeOf", "toLocaleString", "__proto__"}

\* what an extractor hands to analyze(): it returned after storing its section,
\* or it threw before the assignment to this.metadata.seo[...]
Returned(payload) == [threw |-> FALSE, val |-> payload]
Thrown == [threw |-> TRUE, val |-> "TypeError"]

\* ------------------------------------------------------------------ elements

Meta(name, property, content) ==
    [name |-> name, property |-> property, content |-> content,
     charset |-> Undef, httpEquiv |-> Undef]
Link(rel, href) ==
    [rel |-> rel, href |-> href, hreflang |-> Undef, type |-> Undef, media |-> Undef]

\* ----------------------------------------------------- extractBasicMetadata

IsNamedMeta(m, n) == m.name = <<n>>
IsRelLink(l, r) == l.rel = r

ExtractBasicMetadata(html) ==
    LET NameIs(n) == LET T(m) == IsNamedMeta(m, n) IN SelectSeq(html.metas, T)
        RelIs(r) == LET T(l) == IsRelLink(l, r) IN SelectSeq(html.links, T)
        HasCharset(m) == m.charset # Undef
        IsContentType(m) == m.httpEquiv = "Content-Type"
        IsHreflang(l) == l.rel = "alternate" /\ l.hreflang # Undef
        charset == FirstAttr(SelectSeq(html.metas, HasCharset), "charset")
        alternates == SelectSeq(html.links, IsHreflang)
    IN  Returned(
        [title |-> OrNull(html.title),
         metaDescription |-> OrNull(FirstAttr(NameIs("description"), "content")),
         canonical |-> OrNull(FirstAttr(RelIs("canonical"), "href")),
         robots |-> OrNull(FirstAttr(NameIs("robots"), "content")),
         viewport |-> OrNull(FirstAttr(NameIs("viewport"), "content")),
         charset |-> IF Truthy(charset) THEN charset
                     ELSE OrNull(FirstAttr(SelectSeq(html.metas, IsContentType), "content")),
         language |-> OrNull(html.lang),
         hreflang |-> [i \in 1..Len(alternates) |->
                          [lang |-> alternates[i].hreflang, href |-> alternates[i].href]]])

\* ------------------------------------------------- extractOpenGraphMetadata

\* String.prototype.split(sep) of a tokenised string: the parts between the
\* sep tokens, an empty part where two separators meet or the string ends in one
RECURSIVE Split(_, _)
Split(s, sep) ==
    IF s = <<>> THEN <<"">>
    ELSE IF Head(s) = sep THEN <<"">> \o Split(Tail(s), sep)
    ELSE <<Head(s)>> \o Tail(Split(Tail(s), sep))

\* a value stored in ogTags: a content string, or a nested object
OgString(content) == [isObj |-> FALSE, str |-> content, obj |-> EmptyObject]
OgObject(obj) == [isObj |-> TRUE, str |-> "", obj |-> obj]

\* ogTags[parent][child] = content under a class body's strict mode, where
\* ogTags[parent] is already set.  Setting a property on a primitive string
\* throws a TypeError; on an inherited Object.prototype value it succeeds and
\* leaves ogTags' own properties as they are.
OgNestedWrite(tags, parent, child, content) ==
    IF parent \notin DOMAIN tags
    THEN [threw |-> FALSE, tags |-> tags]
    ELSE IF tags[parent].isObj
    THEN [threw |-> FALSE,
          tags |-> SetKey(tags, parent, OgObject(SetKey(tags[parent].obj, child, content)))]
    ELSE [threw |-> TRUE, tags |-> tags]

\* one callback of $('meta[property^="og:"]').each(...)
OgTag(tags, elem) ==
    LET property == SubSeq(elem.property, 3, Len(elem.property))
        content == elem.content
    IN  IF ~(property # <<>> /\ Truthy(content))
        THEN [threw |-> FALSE, tags |-> tags]
        ELSE IF \E i \in 1..Len(property) : property[i] = ":"
        THEN LET parts == Split(property, ":")
                 parent == parts[1]
                 child == parts[2]
                 created == IF parent \notin DOMAIN tags
                                /\ parent \notin ObjectPrototypeKeys
                            THEN SetKey(tags, parent, OgObject(EmptyObject))
                            ELSE tags
             IN  OgNestedWrite(created, parent, child, content)
        ELSE IF property[1] = "__proto__"
        THEN [threw |-> FALSE, tags |-> tags]
        ELSE [threw |-> FALSE, tags |-> SetKey(tags, property[1], OgString(content))]

RECURSIVE OgEach(_, _)
OgEach(elems, tags) ==
    IF elems = <<>> THEN [threw |-> FALSE, tags |-> tags]
    ELSE LET r == OgTag(tags, Head(elems))
         IN  IF r.threw THEN r ELSE OgEach(Tail(elems), r.tags)

IsOgMeta(m) == m.property # NoAttr /\ StartsWith(m.property, <<"og", ":">>)

ExtractOpenGraphMetadata(html) ==
    LET r == OgEach(SelectSeq(html.metas, IsOgMeta), EmptyObject)
    IN  IF r.threw THEN Thrown ELSE Returned(r.tags)

\* --------------------------------------------------- extractTwitterMetadata

IsTwitterMeta(m) == m.name # NoAttr /\ StartsWith(m.name, <<"twitter", ":">>)

RECURSIVE TwitterEach(_, _)
TwitterEach(elems, tags) ==
    IF elems = <<>> THEN tags
    ELSE LET name == SubSeq(Head(elems).name, 3, Len(Head(elems).name))
             content == Head(elems).content
         IN  TwitterEach(Tail(elems),
                 IF name # <<>> /\ Truthy(content) /\ name # <<"__proto__">>
                 THEN SetKey(tags, name, content)
                 ELSE tags)

ExtractTwitterMetadata(html) ==
    Returned(TwitterEach(SelectSeq(html.metas, IsTwitterMeta), EmptyObject))

\* ---------------------------------------------------- extractSchemaMetadata

\* JSON.parse of a script block's text.  The texts are sequences over the
\* tokens { } [ ] 1 x and the blank; a value is 1, {}, [] or [value], blanks
\* are skipped, and the parsed value is kept as the text without its blanks.
RECURSIVE IsJsonValue(_)
IsJsonValue(t) ==
    \/ t = <<"1">>
    \/ t = <<"{", "}">>
    \/ t = <<"[", "]">>
    \/ /\ Len(t) >= 3
       /\ t[1] = "[" /\ t[Len(t)] = "]"
       /\ IsJsonValue(SubSeq(t, 2, Len(t) - 1))
NotBlank(c) == c # " "
JsonParse(text) ==
    LET t == SelectSeq(text, NotBlank)
    IN  [ok |-> IsJsonValue(t), value |-> t]

\* one callback of $('script[type="application/ld+json"]').each(...): the
\* try/catch around JSON.parse swallows the SyntaxError
JsonLdBlockKeepsUnparsed(jsonLd, elem) ==
    LET jsonContent == elem.content
        parsed == JsonParse(jsonContent)
    IN  IF jsonContent # <<>> THEN Append(jsonLd, parsed.value) ELSE jsonLd
JsonLdBlock(jsonLd, elem) ==
    LET jsonContent == elem.content
        parsed == JsonParse(jsonContent)
    IN  IF jsonContent # <<>> /\ parsed.ok THEN Append(jsonLd, parsed.value) ELSE jsonLd

RECURSIVE JsonLdEach(_, _)
JsonLdEach(elems, jsonLd) ==
    IF elems = <<>> THEN jsonLd
    ELSE JsonLdEach(Tail(elems), JsonLdBlock(jsonLd, Head(elems)))

\* the item of one itemscope element: item[propName] = content || text
RECURSIVE ItemProps(_, _)
ItemProps(props, item) ==
    IF props = <<>> THEN item
    ELSE LET prop == Head(props)
         IN  ItemProps(Tail(props),
                 SetKey(item, prop.itemprop,
                        IF Truthy(prop.content) THEN prop.content ELSE prop.text))

\* itemtype.split('/').pop()
LastSegment(itemtype) == LET parts == Split(itemtype, "/") IN parts[Len(parts)]

\* one callback of $('[itemscope]').each(...).  microdata[type] of an inherited
\* property name is truthy and has no push: the call throws a TypeError.
MicrodataItem(microdata, elem) ==
    IF ~TruthySeq(elem.itemtype)
    THEN [threw |-> FALSE, microdata |-> microdata]
    ELSE LET type == LastSegment(elem.itemtype)
             item == ItemProps(elem.props, EmptyObject)
         IN  IF type \in DOMAIN microdata
             THEN [threw |-> FALSE,
                   microdata |-> SetKey(microdata, type, Append(microdata[type], item))]
             ELSE IF type \in ObjectPrototypeKeys
             THEN [threw |-> TRUE, microdata |-> microdata]
             ELSE [threw |-> FALSE, microdata |-> SetKey(microdata, type, <<item>>)]

RECURSIVE MicrodataEach(_, _)
MicrodataEach(elems, microdata) ==
    IF elems = <<>> THEN [threw |-> FALSE, microdata |-> microdata]
    ELSE LET r == MicrodataItem(microdata, Head(elems))
         IN  IF r.threw THEN r ELSE MicrodataEach(Tail(elems), r.microdata)

IsLdJson(sc) == sc.type = "application/ld+json"

ExtractSchemaMetadata(html) ==
    LET jsonLd == JsonLdEach(SelectSeq(html.scripts, IsLdJson), <<>>)
        r == MicrodataEach(html.itemscopes, EmptyObject)
    IN  IF r.threw THEN Thrown
        ELSE Returned([jsonLd |-> jsonLd, microdata |-> r.microdata])

\* ------------------------------------------------- extractTechnicalMetadata

S_DOCTYPE == <<"<", "!", "d", "o", "c", "t", "y", "p", "e">>
S_HTML4 == <<"H", "T", "M", "L", " ", "4">>
S_XHTML == <<"X", "H", "T", "M", "L">>
S_HTML5 == <<"H", "T", "M", "L", "5">>
S_Html5Doctype == <<"<", "!", "D", "O", "C", "T", "Y", "P", "E", " ", "h", "t", "m", "l", ">">>

\* this.html.match(/<!DOCTYPE[^>]*>/i)?.[0] || '': the leftmost "<!doctype" in
\* any letter case, up to the first ">" after it; the empty string without one
DoctypeMatch(source) ==
    LET Starts(p) ==
            /\ p + Len(S_DOCTYPE) - 1 <= Len(source)
            /\ ToLowerCase(SubSeq(source, p, p + Len(S_DOCTYPE) - 1)) = S_DOCTYPE
            /\ \E q \in (p + Len(S_DOCTYPE))..Len(source) : source[q] = ">"
        Matches == {p \in 1..Len(source) : Starts(p)}
    IN  IF Matches = {} THEN <<>>
        ELSE LET p == CHOOSE x \in Matches : \A y \in Matches : x <= y
                 Ends == {q \in (p + Len(S_DOCTYPE))..Len(source) : source[q] = ">"}
                 q == CHOOSE x \in Ends : \A y \in Ends : x <= y
             IN  SubSeq(source, p, q)

GetHtmlVersionHtml5First(html) ==
    LET doctype == DoctypeMatch(html.source)
    IN  IF Includes(doctype, S_HTML5) \/ doctype = S_Html5Doctype THEN "HTML5"
        ELSE IF Includes(doctype, S_HTML4) THEN "HTML4"
        ELSE IF Includes(doctype, S_XHTML) THEN "XHTML"
        ELSE "Unknown"
GetHtmlVersion(html) ==
    LET doctype == DoctypeMatch(html.source)
    IN  IF Includes(doctype, S_HTML4) THEN "HTML4"
        ELSE IF Includes(doctype, S_XHTML) THEN "XHTML"
        ELSE IF Includes(doctype, S_HTML5) \/ doctype = S_Html5Doctype THEN "HTML5"
        ELSE "Unknown"

ExtractTechnicalMetadata(html) ==
    LET NameIs(n) == LET T(m) == IsNamedMeta(m, n) IN SelectSeq(html.metas, T)
        RelIs(r) == LET T(l) == IsRelLink(l, r) IN SelectSeq(html.links, T)
        HasCharset(m) == m.charset # Undef
        IsContentType(m) == m.httpEquiv = "Content-Type"
        IsRss(l) == l.type = "application/rss+xml"
        IsMobileAlternate(l) == l.rel = "alternate" /\ l.media # Undef
    IN  Returned(
        [doctype |-> OrNullSeq(DoctypeMatch(html.source)),
         htmlVersion |-> GetHtmlVersion(html),
         hasViewport |-> Len(NameIs("viewport")) > 0,
         hasCharset |-> Len(SelectSeq(html.metas, HasCharset)) > 0
                        \/ Len(SelectSeq(html.metas, IsContentType)) > 0,
         hasCanonical |-> Len(RelIs("canonical")) > 0,
         hasRobots |-> Len(NameIs("robots")) > 0,
         hasSitemap |-> Len(RelIs("sitemap")) > 0,
         hasRSS |-> Len(SelectSeq(html.links, IsRss)) > 0,
         hasAMP |-> Len(RelIs("amphtml")) > 0,
         hasMobileAlternate |-> Len(SelectSeq(html.links, IsMobileAlternate)) > 0,
         sitemapUrl |-> OrNull(FirstAttr(RelIs("sitemap"), "href")),
         rssUrl |-> OrNull(FirstAttr(SelectSeq(html.links, IsRss), "href"))])

\* ------------------------------------------------------------- extractLinks

S_nofollow == <<"n", "o", "f", "o", "l", "l", "o", "w">>
S_sponsored == <<"s", "p", "o", "n", "s", "o", "r", "e", "d">>
S_ugc == <<"u", "g", "c">>

\* An href or a URL is a sequence of tokens: a first token that is its scheme
\* with the colon ("http:", "javascript:"), "#", or the first path segment;
\* then "//", the host, and path segments.
HttpPrefixed == {"http:", "https:", "httpx"}
\* the host names the URL parser accepts, with the lower-case hostname it reports
Hostnames == [x \in {"site.com", "SITE.com", "other.com"} |->
                 IF x = "SITE.com" THEN "site.com" ELSE x]

\* new URL(s): the parsed URL's hostname, or the TypeError it throws
ParseURL(s) ==
    IF /\ Len(s) >= 3
       /\ s[1] \in {"http:", "https:", "ftp:"}
       /\ s[2] = "//"
       /\ s[3] \in DOMAIN Hostnames
    THEN [ok |-> TRUE, hostname |-> Hostnames[s[3]]]
    ELSE [ok |-> FALSE, hostname |-> ""]

\* the bucket a link goes to: "skip" for the early returns
CategorizeCatchInternal(href, url) ==
    IF href = <<>> THEN "skip"
    ELSE IF Head(href) = "#" \/ Head(href) = "javascript:" THEN "skip"
    ELSE IF Head(href) \in HttpPrefixed
    THEN LET urlObj == ParseURL(href)
             baseUrlObj == ParseURL(url)
         IN  IF urlObj.ok /\ baseUrlObj.ok
             THEN IF urlObj.hostname = baseUrlObj.hostname THEN "internal" ELSE "external"
             ELSE "internal"
    ELSE "internal"
Categorize(href, url) ==
    IF href = <<>> THEN "skip"
    ELSE IF Head(href) = "#" \/ Head(href) = "javascript:" THEN "skip"
    ELSE IF Head(href) \in HttpPrefixed
    THEN LET urlObj == ParseURL(href)
             baseUrlObj == ParseURL(url)
         IN  IF urlObj.ok /\ baseUrlObj.ok
             THEN IF urlObj.hostname = baseUrlObj.hostname THEN "internal" ELSE "external"
             ELSE "external"
    ELSE "internal"

\* the link record of one anchor
LinkRecord(elem) ==
    LET rel == IF TruthySeq(elem.rel) THEN elem.rel ELSE <<>>
        text == Trim(elem.text)
    IN  [url |-> elem.href,
         text |-> OrNullSeq(text),
         rel |-> OrNullSeq(rel),
         isNofollow |-> Includes(ToLowerCase(rel), S_nofollow),
         isSponsored |-> Includes(ToLowerCase(rel), S_sponsored),
         isUGC |-> Includes(ToLowerCase(rel), S_ugc),
         title |-> OrNull(elem.title)]

\* one callback of $('a[href]').each(...)
LinkEach(links, elem, url) ==
    LET link == LinkRecord(elem)
        bucket == Categorize(elem.href, url)
    IN  IF bucket = "skip" THEN links
        ELSE [internal |-> IF bucket = "internal"
                           THEN Append(links.internal, link) ELSE links.internal,
              external |-> IF bucket = "external"
                           THEN Append(links.external, link) ELSE links.external,
              nofollow |-> IF link.isNofollow
                           THEN Append(links.nofollow, link) ELSE links.nofollow,
              broken |-> links.broken]

RECURSIVE LinksEach(_, _, _)
LinksEach(elems, links, url) ==
    IF elems = <<>> THEN links
    ELSE LinksEach(Tail(elems), LinkEach(links, Head(elems), url), url)

\* Array.from(new Set(urls)): the distinct values, in first-insertion order
RECURSIVE SetOrder(_, _)
SetOrder(urls, seen) ==
    IF urls = <<>> THEN seen
    ELSE SetOrder(Tail(urls),
                  IF \E i \in 1..Len(seen) : seen[i] = Head(urls)
                  THEN seen ELSE Append(seen, Head(urls)))

\* arr.find(l => l.url === url): the first record with that url
FindLast(arr, url) == arr[CHOOSE i \in 1..Len(arr) :
                        arr[i].url = url /\ \A j \in (i + 1)..Len(arr) : arr[j].url # url]
Find(arr, url) == arr[CHOOSE i \in 1..Len(arr) :
                        arr[i].url = url /\ \A j \in 1..(i - 1) : arr[j].url # url]

UniqueLinks(arr) ==
    LET urls == SetOrder([i \in 1..Len(arr) |-> arr[i].url], <<>>)
    IN  [i \in 1..Len(urls) |-> Find(arr, urls[i])]

ExtractLinks(html, url) ==
    LET links == LinksEach(html.anchors,
                           [internal |-> <<>>, external |-> <<>>,
                            nofollow |-> <<>>, broken |-> <<>>], url)
    IN  Returned([internal |-> UniqueLinks(links.internal),
                  external |-> UniqueLinks(links.external),
                  nofollow |-> UniqueLinks(links.nofollow),
                  broken |-> links.broken])

\* ---------------------------------------------------------- extractHeadings

HeadingLevels == 1..6

\* the records of $(tag).each(...) for one level: headings whose trimmed text
\* is not empty
RECURSIVE HeadingsOfLevel(_, _)
HeadingsOfLevel(elems, collected) ==
    IF elems = <<>> THEN collected
    ELSE LET text == Trim(Head(elems).text)
         IN  HeadingsOfLevel(Tail(elems),
                 IF text # <<>>
                 THEN Append(collected,
                             [text |-> text, id |-> OrNull(Head(elems).id),
                              length |-> Len(text)])
                 ELSE collected)

ExtractHeadingsRawCounts(html) ==
    LET OfLevel(l) == LET T(h) == h.level = l IN SelectSeq(html.headings, T)
        byLevel == [l \in HeadingLevels |-> HeadingsOfLevel(OfLevel(l), <<>>)]
    IN  Returned([h |-> byLevel,
                  counts |-> [l \in HeadingLevels |-> Len(OfLevel(l))]])
ExtractHeadings(html) ==
    LET OfLevel(l) == LET T(h) == h.level = l IN SelectSeq(html.headings, T)
        byLevel == [l \in HeadingLevels |-> HeadingsOfLevel(OfLevel(l), <<>>)]
    IN  Returned([h |-> byLevel,
                  counts |-> [l \in HeadingLevels |-> Len(byLevel[l])]])

\* ------------------------------------------------------------ extractImages

\* the image record of one img element
ImageRecord(elem) ==
    LET alt == IF Truthy(elem.alt) THEN elem.alt ELSE ""
    IN  [src |-> elem.src,
         alt |-> OrNull(alt),
         hasAlt |-> alt # "",
         isLazy |-> elem.loading = "lazy",
         srcset |-> OrNull(elem.srcset),
         title |-> OrNull(elem.title)]

\* the record goes to its buckets and the running totals follow
AddImage(images, image) ==
    [withAlt |-> IF image.hasAlt
                 THEN Append(images.withAlt, image) ELSE images.withAlt,
     withoutAlt |-> IF image.hasAlt
                    THEN images.withoutAlt ELSE Append(images.withoutAlt, image),
     lazyLoaded |-> IF image.isLazy
                    THEN Append(images.lazyLoaded, image) ELSE images.lazyLoaded,
     counts |->
        [total |-> images.counts.total + 1,
         withAlt |-> images.counts.withAlt + (IF image.hasAlt THEN 1 ELSE 0),
         withoutAlt |-> images.counts.withoutAlt + (IF image.hasAlt THEN 0 ELSE 1),
         lazyLoaded |-> images.counts.lazyLoaded + (IF image.isLazy THEN 1 ELSE 0)]]

\* one callback of $('img').each(...): an img without a src is passed over
ImageEachCountsFirst(images, elem) ==
    IF ~Truthy(elem.src)
    THEN [images EXCEPT !.counts.total = @ + 1]
    ELSE AddImage(images, ImageRecord(elem))
ImageEach(images, elem) ==
    IF ~Truthy(elem.src) THEN images ELSE AddImage(images, ImageRecord(elem))

RECURSIVE ImagesEach(_, _)
ImagesEach(elems, images) ==
    IF elems = <<>> THEN images
    ELSE ImagesEach(Tail(elems), ImageEach(images, Head(elems)))

ExtractImages(html) ==
    Returned(ImagesEach(html.imgs,
        [withAlt |-> <<>>, withoutAlt |-> <<>>, lazyLoaded |-> <<>>,
         counts |-> [total |-> 0, withAlt |-> 0, withoutAlt |-> 0, lazyLoaded |-> 0]]))

\* ------------------------------------------------ extractPerformanceMetrics

\* the estimate's bytes per stylesheet, per external script and per image
StylesheetBytes == 15000
ScriptBytes == 50000
ImageBytes == 100000

IsStylesheet(l) == l.rel = "stylesheet"
HasSrc(e) == e.src # Undef

EstimatePageWeightProduct(html) ==
    LET htmlSize == html.byteLength
        externalResourcesSize ==
            Len(SelectSeq(html.links, IsStylesheet)) * StylesheetBytes
            + (Len(SelectSeq(html.scripts, HasSrc)) * ScriptBytes)
              * (Len(SelectSeq(html.imgs, HasSrc)) * ImageBytes)
    IN  [html |-> htmlSize,
         estimatedExternalResources |-> externalResourcesSize,
         totalEstimated |-> htmlSize + externalResourcesSize]
EstimatePageWeight(html) ==
    LET htmlSize == html.byteLength
        externalResourcesSize ==
            Len(SelectSeq(html.links, IsStylesheet)) * StylesheetBytes
            + Len(SelectSeq(html.scripts, HasSrc)) * ScriptBytes
            + Len(SelectSeq(html.imgs, HasSrc)) * ImageBytes
    IN  [html |-> htmlSize,
         estimatedExternalResources |-> externalResourcesSize,
         totalEstimated |-> htmlSize + externalResourcesSize]

ExtractPerformanceMetrics(html) ==
    LET NoSrc(e) == e.src = Undef
    IN  Returned(
        [totalImages |-> Len(html.imgs),
         totalScripts |-> Len(SelectSeq(html.scripts, HasSrc)),
         totalStylesheets |-> Len(SelectSeq(html.links, IsStylesheet)),
         totalInlineScripts |-> Len(SelectSeq(html.scripts, NoSrc)),
         totalInlineStyles |-> html.styles,
         totalLinks |-> Len(html.anchors),
         totalHeadings |-> Len(html.headings),
         htmlSize |-> html.byteLength,
         estimatedPageWeight |-> EstimatePageWeight(html)])

\* -------------------------------------------------------------------- pages

Script(type, src, content) == [type |-> type, src |-> src, content |-> content]
Anchor(href, rel, text) == [href |-> href, rel |-> rel, text |-> text, title |-> Undef]
Heading(level, text, id) == [level |-> level, text |-> text, id |-> id]
Img(src, alt, loading) ==
    [src |-> src, alt |-> alt, loading |-> loading, srcset |-> Undef, title |-> Undef]
Itemscope(itemtype, props) == [itemtype |-> itemtype, props |-> props]
Itemprop(name, content, text) == [itemprop |-> name, content |-> content, text |-> text]

\* a page with a minimal HTML5 doctype, a title, a description and a canonical link
BasePage ==
    [source |-> S_Html5Doctype,
     byteLength |-> 2048,
     title |-> "Home",
     lang |-> "en",
     metas |-> <<Meta(<<"description">>, NoAttr, "A page"),
                 [Meta(NoAttr, NoAttr, Undef) EXCEPT !.charset = "utf-8"],
                 Meta(<<"twitter", ":", "card">>, NoAttr, "summary")>>,
     links |-> <<Link("canonical", "https://site.com/"),
                 [Link("alternate", "https://site.com/de") EXCEPT !.hreflang = "de"]>>,
     scripts |-> <<>>,
     styles |-> 1,
     itemscopes |-> <<>>,
     anchors |-> <<>>,
     headings |-> <<>>,
     imgs |-> <<>>]

\* this.html = '' of the constructor: no markup at all
NoPage ==
    [source |-> <<>>, byteLength |-> 0, title |-> "", lang |-> Undef,
     metas |-> <<>>, links |-> <<>>, scripts |-> <<>>, styles |-> 0,
     itemscopes |-> <<>>, anchors |-> <<>>, headings |-> <<>>, imgs |-> <<>>]

Og(name, content) == Meta(NoAttr, <<"og", ":">> \o name, content)
OgMetaElems ==
    {Og(<<"image">>, "a.png"),
     Og(<<"image", ":", "width">>, "100"),
     Og(<<"image", ":", "height">>, "50"),
     Og(<<"title">>, "T"),
     Og(<<"image", ":", "width">>, Undef),
     Meta(<<"twitter", ":", "site", ":", "id">>, NoAttr, "7")}

LdJson(content) == Script("application/ld+json", Undef, content)
ScriptElems ==
    {LdJson(<<"{", "}">>),
     LdJson(<<"{", "x", "}">>),
     LdJson(<<" ", "[", " ", "1", "]">>),
     LdJson(<<"[", "1">>),
     LdJson(<<>>),
     Script(Undef, "app.js", <<>>)}
ItemscopeChoices ==
    {<<>>,
     <<Itemscope(<<"https:", "/", "/", "schema.org", "/", "Product">>,
                 <<Itemprop("name", Undef, "Shoe"), Itemprop("price", "9", "nine")>>),
       Itemscope(NoAttr, <<Itemprop("name", Undef, "untyped")>>),
       Itemscope(<<"https:", "/", "/", "schema.org", "/", "Product">>, <<>>)>>,
     <<Itemscope(<<"https:", "/", "/", "schema.org", "/", "constructor">>,
                 <<Itemprop("name", Undef, "Shoe")>>)>>}

S_Nofollow == <<"N", "o", "F", "o", "l", "l", "o", "w">>
AnchorElems ==
    {Anchor(<<"/", "a">>, NoAttr, <<"x">>),
     Anchor(<<"/", "a">>, S_nofollow, <<" ", "y", " ">>),
     Anchor(<<"https:", "//", "SITE.com", "/a">>, S_Nofollow \o <<" ">> \o S_ugc, <<"x">>),
     Anchor(<<"http:", "//", "other.com">>, S_nofollow, <<"x">>),
     Anchor(<<"http:", "//", "other.com">>, S_sponsored, <<>>),
     Anchor(<<"#", "top">>, S_nofollow, <<"x">>),
     Anchor(<<"javascript:", "void(0)">>, NoAttr, <<"x">>),
     Anchor(<<"httpx">>, NoAttr, <<"x">>),
     Anchor(<<"ftp:", "//", "other.com">>, NoAttr, <<"x">>),
     Anchor(<<>>, S_nofollow, <<"x">>)}

HeadingTexts ==
    {[text |-> <<" ">>, id |-> "blank"],
     [text |-> <<"a">>, id |-> Undef],
     [text |-> <<" ", "b", "c", " ">>, id |-> "bc"]}
HeadingElems == {Heading(l, t.text, t.id) : l \in HeadingLevels, t \in HeadingTexts}

ImgElems ==
    {Img("a.png", "x", "lazy"),
     Img("a.png", Undef, Undef),
     Img("b.png", "", "eager"),
     Img("c.png", Undef, "lazy"),
     Img(Undef, "x", "lazy"),
     Img("", "x", "lazy")}

DoctypeWords ==
    {<<"h", "t", "m", "l">>, <<"H", "T", "M", "L">>, S_XHTML, S_HTML5, <<"4", ".", "0", "1">>}
RECURSIVE JoinWords(_)
JoinWords(ws) == IF ws = <<>> THEN <<>> ELSE <<" ">> \o Head(ws) \o JoinWords(Tail(ws))
DoctypeSources ==
    {<<"<", "h", "t", "m", "l", ">">>}
    \cup {kw \o JoinWords(ws) \o <<">", "<", "h", "t", "m", "l", ">">> :
            kw \in {ToLowerCase(S_DOCTYPE), SubSeq(S_Html5Doctype, 1, 9)},
            ws \in SeqsUpTo(DoctypeWords, MaxWords)}

WithMetas(ms) == [BasePage EXCEPT !.metas = BasePage.metas \o ms]
PagesOG == {WithMetas(ms) : ms \in SeqsUpTo(OgMetaElems, MaxOg)}
PagesSchema ==
    {[BasePage EXCEPT !.scripts = sc, !.itemscopes = it] :
        sc \in SeqsUpTo(ScriptElems, MaxScripts), it \in ItemscopeChoices}
PagesTech == {[BasePage EXCEPT !.source = src] : src \in DoctypeSources}
PagesLinks == {[BasePage EXCEPT !.anchors = a] : a \in SeqsUpTo(AnchorElems, MaxAnchors)}
PagesHeadings ==
    {[BasePage EXCEPT !.headings = h] : h \in SeqsUpTo(HeadingElems, MaxHeadings)}
PagesImages == {[BasePage EXCEPT !.imgs = i] : i \in SeqsUpTo(ImgElems, MaxImgs)}
PagesPerf ==
    {[BasePage EXCEPT !.links = [i \in 1..k |-> Link("stylesheet", "s.css")] \o BasePage.links,
                      !.scripts = sc, !.imgs = im] :
        k \in 0..MaxSheets,
        sc \in SeqsUpTo({Script(Undef, "app.js", <<>>), Script(Undef, Undef, <<"1">>)}, MaxScripts),
        im \in SeqsUpTo({Img("a.png", "x", Undef), Img(Undef, "x", Undef)}, MaxImgs)}
\* pages on which zero, one or two extractors throw
PagesMain ==
    {[BasePage EXCEPT !.metas = BasePage.metas \o ms, !.itemscopes = it,
                      !.anchors = a, !.imgs = im, !.headings = h] :
        ms \in {<<>>,
                <<Og(<<"title">>, "T"), Og(<<"image", ":", "width">>, "100")>>,
                <<Og(<<"image">>, "a.png"), Og(<<"image", ":", "width">>, "100")>>,
                <<Og(<<"image", ":", "width">>, "100"), Og(<<"image">>, "a.png")>>},
        it \in ItemscopeChoices,
        a \in {<<>>, <<Anchor(<<"/", "a">>, NoAttr, <<"x">>)>>},
        im \in {<<>>, <<Img("a.png", "x", "lazy")>>},
        h \in {<<>>, <<Heading(1, <<"a">>, Undef)>>}}

\* process.argv.slice(2): no argument, a string that is no URL, an https URL,
\* and a well-formed URL that the HTTP client cannot fetch
ArgChoices ==
    {<<>>,
     <<<<"site.com">>>>,
     <<<<"https:", "//", "site.com", "/">>>>,
     <<<<"ftp:", "//", "site.com", "/">>, <<"https:", "//", "other.com">>>>}

\* ------------------------------------------------------------- the program

VARIABLES
    args,       \* process.argv.slice(2)
    page,       \* the markup the server holds for the URL
    pc,         \* where main() stands
    url,        \* scraper.url
    html,       \* scraper.html, parsed into scraper.$ by fetchPage
    seo,        \* scraper.metadata.seo: category -> section
    step,       \* the index of analyze()'s next step
    out,        \* the lines written to the console, in order
    exitCode    \* the argument of process.exit, 0 while none was called

vars == <<args, page, pc, url, html, seo, step, out, exitCode>>

Line(kind, data) == [kind |-> kind, data |-> data]

InitWith(Pages) ==
    /\ args \in ArgChoices
    /\ page \in Pages
    /\ pc = "main"
    /\ url = <<>>
    /\ html = NoPage
    /\ seo = EmptyObject
    /\ step = 0
    /\ out = <<>>
    /\ exitCode = 0

\* main() up to its first suspension: the argument checks, new SEOScraper(url)
\* and fetchPage() up to the await of axios.get
MainStart ==
    /\ pc = "main"
    /\ IF Len(args) = 0
       THEN /\ out' = out \o <<Line("error", "Please provide a URL"), Line("log", "Usage")>>
            /\ exitCode' = 1
            /\ pc' = "exited"
            /\ UNCHANGED url
       ELSE IF ~ParseURL(args[1]).ok
       THEN /\ out' = Append(out, Line("error", "Invalid URL provided"))
            /\ exitCode' = 1
            /\ pc' = "exited"
            /\ UNCHANGED url
       ELSE /\ url' = args[1]
            /\ out' = Append(out, Line("log", "Fetching"))
            /\ pc' = "fetching"
            /\ UNCHANGED exitCode
    /\ seo' = EmptyObject
    /\ UNCHANGED <<args, page, html, step>>

\* axios.get resolves: fetchPage stores and parses the markup, and main() enters
\* analyze(), which builds its steps
FetchResolves ==
    /\ pc = "fetching"
    /\ url[1] \in {"http:", "https:"}
    /\ html' = page
    /\ out' = out \o <<Line("log", "Page fetched successfully"),
                       Line("log", "Analyzing SEO metadata")>>
    /\ pc' = "analyze"
    /\ step' = 1
    /\ UNCHANGED <<args, page, url, seo, exitCode>>

\* axios.get rejects (network, timeout, TLS, status, redirects, scheme):
\* fetchPage rethrows and main()'s catch ends the process
FetchRejectsSwallowed ==
    /\ pc = "fetching"
    /\ out' = Append(out, Line("error", "Failed to fetch page"))
    /\ pc' = "analyze"
    /\ step' = 1
    /\ UNCHANGED <<args, page, url, html, seo, exitCode>>
FetchRejects ==
    /\ pc = "fetching"
    /\ out' = Append(out, Line("error", "Failed to fetch page"))
    /\ exitCode' = 1
    /\ pc' = "exited"
    /\ UNCHANGED <<args, page, url, html, seo, step>>

\* analyze()'s steps: the names it logs, in order
StepNames == <<"Basic Metadata", "Open Graph Tags", "Twitter Cards", "Schema Markup",
               "Technical SEO", "Links Analysis", "Headings Structure",
               "Images Analysis", "Performance Metrics">>

\* one iteration of analyze()'s loop: the step's extractor stores its section or
\* throws, the catch logs the error, and the loop goes on
RunStepPropagating(i, r) ==
    /\ pc = "analyze"
    /\ step = i
    /\ IF r.threw
       THEN /\ out' = Append(out, Line("error", StepNames[i]))
            /\ exitCode' = 1
            /\ pc' = "exited"
            /\ UNCHANGED <<seo, step>>
       ELSE /\ seo' = SetKey(seo, Categories[i], r.val)
            /\ out' = Append(out, Line("ok", StepNames[i]))
            /\ step' = i + 1
            /\ UNCHANGED <<pc, exitCode>>
    /\ UNCHANGED <<args, page, url, html>>
RunStep(i, r) ==
    /\ pc = "analyze"
    /\ step = i
    /\ seo' = IF r.threw THEN seo ELSE SetKey(seo, Categories[i], r.val)
    /\ out' = Append(out, Line(IF r.threw THEN "warn" ELSE "ok", StepNames[i]))
    /\ step' = i + 1
    /\ UNCHANGED <<args, page, pc, url, html, exitCode>>

StepBasic == RunStep(1, ExtractBasicMetadata(html))
StepOpenGraph == RunStep(2, ExtractOpenGraphMetadata(html))
StepTwitter == RunStep(3, ExtractTwitterMetadata(html))
StepSchema == RunStep(4, ExtractSchemaMetadata(html))
StepTechnical == RunStep(5, ExtractTechnicalMetadata(html))
StepLinks == RunStep(6, ExtractLinks(html, url))
StepHeadings == RunStep(7, ExtractHeadings(html))
StepImages == RunStep(8, ExtractImages(html))
StepPerformance == RunStep(9, ExtractPerformanceMetrics(html))

\* the loop is over: analyze() logs and returns this.metadata
AnalyzeReturns ==
    /\ pc = "analyze"
    /\ step = Len(Categories) + 1
    /\ out' = Append(out, Line("log", "Analysis complete"))
    /\ pc' = "summary"
    /\ UNCHANGED <<args, page, url, html, seo, step, exitCode>>

\* whether seo.<category> is there: printSummary() reads seo.x?.y || 0
Has(category) == category \in DOMAIN seo

\* printSummary(): the counts it prints
PrintSummary ==
    /\ pc = "summary"
    /\ out' = Append(out, Line("summary",
           [h1 |-> IF Has("headings") THEN seo["headings"].counts[1] ELSE 0,
            images |-> IF Has("images") THEN seo["images"].counts.total ELSE 0,
            imagesWithAlt |-> IF Has("images") THEN seo["images"].counts.withAlt ELSE 0,
            internal |-> IF Has("links") THEN Len(seo["links"].internal) ELSE 0,
            external |-> IF Has("links") THEN Len(seo["links"].external) ELSE 0,
            nofollow |-> IF Has("links") THEN Len(seo["links"].nofollow) ELSE 0,
            openGraph |-> IF Has("open_graph")
                          THEN Cardinality(DOMAIN seo["open_graph"]) ELSE 0,
            twitter |-> IF Has("twitter") THEN Cardinality(DOMAIN seo["twitter"]) ELSE 0,
            jsonLd |-> IF Has("schema") THEN Len(seo["schema"].jsonLd) ELSE 0]))
    /\ pc' = "json"
    /\ UNCHANGED <<args, page, url, html, seo, step, exitCode>>

\* console.log(JSON.stringify(scraper.metadata, null, 2)), and main() returns
PrintJson ==
    /\ pc = "json"
    /\ out' = Append(out, Line("json", [url |-> url, seo |-> seo]))
    /\ pc' = "done"
    /\ UNCHANGED <<args, page, url, html, seo, step, exitCode>>

Next ==
    \/ MainStart
    \/ FetchResolves
    \/ FetchRejects
    \/ StepBasic
    \/ StepOpenGraph
    \/ StepTwitter
    \/ StepSchema
    \/ StepTechnical
    \/ StepLinks
    \/ StepHeadings
    \/ StepImages
    \/ StepPerformance
    \/ AnalyzeReturns
    \/ PrintSummary
    \/ PrintJson

Init == InitWith(PagesMain)
Spec == Init /\ [][Next]_vars

InitOG == InitWith(PagesOG)
SpecOG == InitOG /\ [][Next]_vars
InitSchema == InitWith(PagesSchema)
SpecSchema == InitSchema /\ [][Next]_vars
InitTech == InitWith(PagesTech)
SpecTech == InitTech /\ [][Next]_vars
InitLinks == InitWith(PagesLinks)
SpecLinks == InitLinks /\ [][Next]_vars
InitHeadings == InitWith(PagesHeadings)
SpecHeadings == InitHeadings /\ [][Next]_vars
InitImages == InitWith(PagesImages)
SpecImages == InitImages /\ [][Next]_vars
InitPerf == InitWith(PagesPerf)
SpecPerf == InitPerf /\ [][Next]_vars

\* ------------------------------------------------------------------ claims

\* the lines analyze()'s loop wrote, one per step it ran
StepLines == SelectSeq(out, LAMBDA l : l.kind \in {"ok", "warn"})
Analyzed == pc \in {"summary", "json", "done"}
HasLine(kind) == \E i \in 1..Len(out) : out[i].kind = kind

\* C1: once analyze() has returned, metadata.seo holds all nine category keys,
\* also on a run in which an extractor threw.
C1_AllKeysAfterAnalyze == Analyzed => DOMAIN seo = CategorySet

\* C2: analyze() runs the nine steps once each in the fixed order; a step that
\* throws is logged and the later steps still run; no step changes a section an
\* earlier step stored; and analyze() returns instead of ending the run.
C2_StepsInOrder ==
    /\ pc = "analyze" =>
          /\ step \in 1..(Len(StepNames) + 1)
          /\ [i \in 1..Len(StepLines) |-> StepLines[i].data] = SubSeq(StepNames, 1, step - 1)
          /\ ENABLED Next
    /\ Analyzed => [i \in 1..Len(StepLines) |-> StepLines[i].data] = StepNames
    /\ \A i \in 1..Len(StepLines) :
          (StepLines[i].kind = "ok") <=> (Categories[i] \in DOMAIN seo)
    /\ StepLines # <<>> => pc # "exited" /\ exitCode = 0
C2_SectionsKept ==
    \A k \in DOMAIN seo : k \in DOMAIN seo' /\ seo'[k] = seo[k]
\* C2: the step order, isolation and return hold in every state (C2_StepsInOrder)
\* and every step keeps the sections stored before it (C2_SectionsKept).
C2_AnalyzeIsolatesFailures == [](C2_StepsInOrder) /\ [][C2_SectionsKept]_vars
\* two steps threw, the steps after them stored their sections, analyze() returned
C2_Witness ==
    /\ pc = "summary"
    /\ Cardinality({i \in 1..Len(StepLines) : StepLines[i].kind = "warn"}) = 2
    /\ DOMAIN seo = CategorySet \ {"open_graph", "schema"}

\* C9: a missing argument, an invalid URL and a failed fetch each end the run
\* with exit code 1 before any extractor ran and without the report JSON; the
\* JSON is written last, after the fetch, the nine steps and the summary.
C9_FatalErrorsAndOrder ==
    /\ exitCode \in {0, 1}
    /\ (pc = "exited") <=> (exitCode = 1)
    /\ pc # "main" /\ (Len(args) = 0 \/ ~ParseURL(args[1]).ok) => pc = "exited"
    /\ pc = "exited" =>
          /\ StepLines = <<>>
          /\ ~HasLine("json") /\ ~HasLine("summary")
          /\ seo = EmptyObject
          /\ out[Len(out)].kind \in {"error", "log"}
          /\ out[1].data \in {"Please provide a URL", "Invalid URL provided", "Fetching"}
    /\ HasLine("json") =>
          /\ pc = "done"
          /\ Len(out) = Len(StepNames) + 6
          /\ [i \in 1..3 |-> out[i].data]
                = <<"Fetching", "Page fetched successfully", "Analyzing SEO metadata">>
          /\ \A i \in 1..Len(StepNames) :
                out[3 + i].kind \in {"ok", "warn"} /\ out[3 + i].data = StepNames[i]
          /\ out[Len(StepNames) + 4].data = "Analysis complete"
          /\ out[Len(StepNames) + 5].kind = "summary"
          /\ out[Len(StepNames) + 6].kind = "json"
          /\ out[Len(StepNames) + 6].data.seo = seo
    /\ HasLine("summary") => HasLine("json") \/ pc = "json"
    /\ pc = "done" => HasLine("json")
\* the fetch of a well-formed URL failed and the run ended
C9_Witness ==
    /\ pc = "exited"
    /\ url # <<>>
    /\ out[Len(out)].data = "Failed to fetch page"

\* the og: metas the Open Graph extractor acts on: a name after the prefix
\* and a content
OgWrites ==
    SelectSeq(html.metas,
              LAMBDA m : IsOgMeta(m) /\ Len(m.property) > 2 /\ Truthy(m.content))
OgParts(m) == Split(SubSeq(m.property, 3, Len(m.property)), ":")

\* C3: when a flat og:P is followed by a nested og:P:C (and no later tag
\* writes P again) the extractor completes and open_graph maps P to a nested
\* mapping holding C -> value.
C3_NestedOverwritesFlat ==
    step > 2 =>
       \A i, j \in 1..Len(OgWrites) :
          (/\ i < j
           /\ Len(OgParts(OgWrites[i])) = 1
           /\ Len(OgParts(OgWrites[j])) > 1
           /\ OgParts(OgWrites[j])[1] = OgParts(OgWrites[i])[1]
           /\ \A k \in (j + 1)..Len(OgWrites) :
                 OgParts(OgWrites[k])[1] # OgParts(OgWrites[j])[1])
          => /\ "open_graph" \in DOMAIN seo
             /\ OgParts(OgWrites[i])[1] \in DOMAIN seo["open_graph"]
             /\ LET v == seo["open_graph"][OgParts(OgWrites[i])[1]]
                    c == OgParts(OgWrites[j])[2]
                IN  v.isObj /\ c \in DOMAIN v.obj /\ v.obj[c] = OgWrites[j].content

\* the anchors extractLinks puts into a bucket before it removes duplicates
InBucket(a, bucket) ==
    /\ Categorize(a.href, url) # "skip"
    /\ IF bucket = "nofollow" THEN LinkRecord(a).isNofollow
       ELSE Categorize(a.href, url) = bucket
\* the first anchor of the bucket with this url
FirstOf(bucket, u) ==
    CHOOSE i \in 1..Len(html.anchors) :
       /\ InBucket(html.anchors[i], bucket) /\ html.anchors[i].href = u
       /\ \A j \in 1..(i - 1) :
             ~(InBucket(html.anchors[j], bucket) /\ html.anchors[j].href = u)

\* C4: after extractLinks each of internal, external and nofollow holds one
\* record per distinct url, the record of the first anchor with that url in the
\* bucket, and the records stand in the order of those first anchors.
C4_FirstRecordPerUrl ==
    "links" \in DOMAIN seo =>
       \A bucket \in {"internal", "external", "nofollow"} :
          LET recs == seo["links"][bucket]
          IN  /\ \A m, n \in 1..Len(recs) : recs[m].url = recs[n].url => m = n
              /\ \A i \in 1..Len(html.anchors) :
                    InBucket(html.anchors[i], bucket)
                    => \E m \in 1..Len(recs) : recs[m].url = html.anchors[i].href
              /\ \A m \in 1..Len(recs) :
                    /\ \E i \in 1..Len(html.anchors) :
                          InBucket(html.anchors[i], bucket)
                          /\ html.anchors[i].href = recs[m].url
                    /\ recs[m] = LinkRecord(html.anchors[FirstOf(bucket, recs[m].url)])
              /\ \A m, n \in 1..Len(recs) :
                    m < n => FirstOf(bucket, recs[m].url) < FirstOf(bucket, recs[n].url)
\* two anchors with one url and different records fell into internal, one survived
C4_Witness ==
    /\ "links" \in DOMAIN seo
    /\ \E i, j \in 1..Len(html.anchors) :
          /\ i < j
          /\ html.anchors[i].href = html.anchors[j].href
          /\ LinkRecord(html.anchors[i]) # LinkRecord(html.anchors[j])
          /\ InBucket(html.anchors[i], "internal")
          /\ InBucket(html.anchors[j], "internal")
    /\ Len(seo["links"].internal) = 1
    /\ Len(seo["links"].nofollow) = 1

\* the img elements with a (non-empty) src
WithSrc == SelectSeq(html.imgs, LAMBDA e : e.src # Undef /\ e.src # "")

\* C5: after extractImages the counts equal the bucket sizes, the imgs with a
\* src are split between withAlt and withoutAlt (each in exactly one, by its
\* alt), total = withAlt + withoutAlt, and an img without a src is in no bucket
\* and no count.
C5_CountsMatchBuckets ==
    "images" \in DOMAIN seo =>
       LET im == seo["images"]
           AltOf(e) == e.alt # Undef /\ e.alt # ""
       IN  /\ im.counts.withAlt = Len(im.withAlt)
           /\ im.counts.withoutAlt = Len(im.withoutAlt)
           /\ im.counts.lazyLoaded = Len(im.lazyLoaded)
           /\ im.counts.total = im.counts.withAlt + im.counts.withoutAlt
           /\ im.counts.total = Len(WithSrc)
           /\ [i \in 1..Len(im.withAlt) |-> im.withAlt[i].src]
                 = LET S == SelectSeq(WithSrc, AltOf) IN [i \in 1..Len(S) |-> S[i].src]
           /\ [i \in 1..Len(im.withoutAlt) |-> im.withoutAlt[i].src]
                 = LET S == SelectSeq(WithSrc, LAMBDA e : ~AltOf(e))
                   IN  [i \in 1..Len(S) |-> S[i].src]
           /\ [i \in 1..Len(im.lazyLoaded) |-> im.lazyLoaded[i].src]
                 = LET S == SelectSeq(WithSrc, LAMBDA e : e.loading = "lazy")
                   IN  [i \in 1..Len(S) |-> S[i].src]
           /\ \A i \in 1..Len(im.withAlt) : im.withAlt[i].hasAlt
           /\ \A i \in 1..Len(im.withoutAlt) : ~im.withoutAlt[i].hasAlt
\* a page with an img without src, one with alt and one without
C5_Witness ==
    /\ "images" \in DOMAIN seo
    /\ Len(html.imgs) = 3
    /\ \E i \in 1..3 : html.imgs[i].src = Undef
    /\ seo["images"].counts = [total |-> 2, withAlt |-> 1, withoutAlt |-> 1, lazyLoaded |-> 1]

\* the ld+json script blocks of the page, and whether a block's text parses
LdBlocks == SelectSeq(html.scripts, IsLdJson)
Parses(block) == block.content # <<>> /\ JsonParse(block.content).ok
\* an itemscope whose type name is a property every object inherits makes the
\* microdata pass throw
MicrodataThrows ==
    \E i \in 1..Len(html.itemscopes) :
       /\ html.itemscopes[i].itemtype \notin {NoAttr, <<>>}
       /\ LastSegment(html.itemscopes[i].itemtype) \in ObjectPrototypeKeys

\* C6: schema.jsonLd is the sequence of the parsed values of the ld+json blocks
\* that parse, in document order; a block that does not parse adds nothing, does
\* not make the extractor throw, and changes neither the microdata (it is what
\* the page without its script blocks gives) nor any other section.
C6_JsonLdState ==
    /\ "schema" \in DOMAIN seo =>
          /\ seo["schema"].jsonLd
                = LET good == SelectSeq(LdBlocks, Parses)
                  IN  [i \in 1..Len(good) |-> JsonParse(good[i].content).value]
          /\ (\A i \in 1..Len(LdBlocks) : ~Parses(LdBlocks[i]))
                => Len(seo["schema"].jsonLd) = 0
          /\ seo["schema"].microdata
                = ExtractSchemaMetadata([html EXCEPT !.scripts = <<>>]).val.microdata
    /\ (pc = "analyze" /\ step > 4) \/ Analyzed =>
          ("schema" \in DOMAIN seo <=> ~MicrodataThrows)
    /\ Analyzed => {"technical", "links", "headings", "images", "performance"} \subseteq DOMAIN seo
C6_OtherSectionsKept ==
    pc = "analyze" /\ step = 4 =>
       /\ DOMAIN seo' \ {"schema"} = DOMAIN seo
       /\ \A k \in DOMAIN seo : seo'[k] = seo[k]
\* C6: jsonLd holds exactly the blocks that parse (C6_JsonLdState) and the schema
\* step changes no other section (C6_OtherSectionsKept).
C6_MalformedJsonLdDropped == [](C6_JsonLdState) /\ [][C6_OtherSectionsKept]_vars
\* a malformed block between two blocks that parse, on a page with microdata
C6_Witness ==
    /\ "schema" \in DOMAIN seo
    /\ Len(LdBlocks) = 3
    /\ Parses(LdBlocks[1]) /\ ~Parses(LdBlocks[2]) /\ LdBlocks[2].content # <<>>
    /\ Parses(LdBlocks[3])
    /\ Len(seo["schema"].jsonLd) = 2
    /\ DOMAIN seo["schema"].microdata # {}

\* C7: getHtmlVersion takes the first match of: contains "HTML 4" -> HTML4;
\* contains "XHTML" -> XHTML; contains "HTML5" or is exactly "<!DOCTYPE html>"
\* -> HTML5; otherwise (also without a doctype) Unknown.
C7_FirstMatchWins ==
    "technical" \in DOMAIN seo =>
       LET t == seo["technical"]
           d == IF t.doctype = <<Null>> THEN <<>> ELSE t.doctype
           v == t.htmlVersion
           has4 == Includes(d, S_HTML4)
           hasX == Includes(d, S_XHTML)
           has5 == Includes(d, S_HTML5) \/ d = S_Html5Doctype
       IN  /\ d = DoctypeMatch(html.source)
           /\ has4 => v = "HTML4"
           /\ ~has4 /\ hasX => v = "XHTML"
           /\ ~has4 /\ ~hasX /\ has5 => v = "HTML5"
           /\ ~has4 /\ ~hasX /\ ~has5 => v = "Unknown"
           /\ d = <<>> => v = "Unknown"
           /\ d = S_Html5Doctype => v = "HTML5"
\* a doctype with both "HTML 4.01" and "HTML5" is HTML4
C7_Witness ==
    /\ "technical" \in DOMAIN seo
    /\ Includes(seo["technical"].doctype, S_HTML4 \o <<".", "0", "1">>)
    /\ Includes(seo["technical"].doctype, S_HTML5)
    /\ seo["technical"].htmlVersion = "HTML4"

\* whether a heading's text has a character that trim() keeps
HasText(e) == \E i \in 1..Len(e.text) : e.text[i] # " "

\* C8: after extractHeadings each level's array is the headings of that level
\* with non-blank text, in document order, and counts[level] is that array's
\* length; headings is a key also for a page without headings.
C8_CountsCollectedHeadings ==
    /\ (pc = "analyze" /\ step > 7) \/ Analyzed => "headings" \in DOMAIN seo
    /\ "headings" \in DOMAIN seo =>
          \A l \in HeadingLevels :
             LET kept == SelectSeq(html.headings, LAMBDA e : e.level = l /\ HasText(e))
                 got == seo["headings"].h[l]
             IN  /\ Len(got) = Len(kept)
                 /\ \A i \in 1..Len(got) :
                       /\ got[i].text = Trim(kept[i].text)
                       /\ got[i].text # <<>>
                       /\ got[i].id = (IF kept[i].id \in {Undef, ""} THEN Null ELSE kept[i].id)
                       /\ got[i].length = Len(got[i].text)
                 /\ seo["headings"].counts[l] = Len(got)
                 /\ html.headings = <<>> => got = <<>> /\ seo["headings"].counts[l] = 0
\* a level with a blank heading and a heading with text: one collected, count 1
C8_Witness ==
    /\ "headings" \in DOMAIN seo
    /\ Len(html.headings) = 2
    /\ html.headings[1].level = 1 /\ html.headings[2].level = 1
    /\ ~HasText(html.headings[1]) /\ HasText(html.headings[2])
    /\ seo["headings"].counts[1] = 1

\* the element counts the estimate reads
NumStylesheets == Len(SelectSeq(html.links, IsStylesheet))
NumExternalScripts == Len(SelectSeq(html.scripts, LAMBDA e : e.src # Undef))
NumImgs == Len(html.imgs)
NumImgsWithSrcAttr == Len(SelectSeq(html.imgs, LAMBDA e : e.src # Undef))

\* C10 as stated: estimatedExternalResources is (#stylesheets * 15000) +
\* (#external scripts * 50000) * (#images * 100000), and totalEstimated is
\* html + estimatedExternalResources.
C10_ImageCostMultiplies ==
    "performance" \in DOMAIN seo =>
       LET w == seo["performance"].estimatedPageWeight
       IN  /\ w.estimatedExternalResources
                = (NumStylesheets * 15000) + (NumExternalScripts * 50000) * (NumImgs * 100000)
           /\ w.totalEstimated = w.html + w.estimatedExternalResources
\* C10 as amended: estimatedExternalResources is the sum (#stylesheets * 15000)
\* + (#external scripts * 50000) + (#img elements with a src attribute *
\* 100000), and totalEstimated is html + estimatedExternalResources.
C10_ImageCostAdds ==
    "performance" \in DOMAIN seo =>
       LET w == seo["performance"].estimatedPageWeight
       IN  /\ w.estimatedExternalResources
                = (NumStylesheets * 15000) + (NumExternalScripts * 50000)
                  + (NumImgsWithSrcAttr * 100000)
           /\ w.html = html.byteLength
           /\ w.totalEstimated = w.html + w.estimatedExternalResources
\* two stylesheets, an external script, an img with a src and one without
C10_Witness ==
    /\ "performance" \in DOMAIN seo
    /\ NumStylesheets = 2 /\ NumExternalScripts = 1
    /\ NumImgs = 2 /\ NumImgsWithSrcAttr = 1
    /\ seo["performance"].estimatedPageWeight.estimatedExternalResources = 180000

\* the urls of a bucket of the links section
UrlsOf(bucket) ==
    {seo["links"][bucket][m].url : m \in 1..Len(seo["links"][bucket])}
\* the rules of the claim, read off the href alone
FirstIs(href, tokens) == href # <<>> /\ href[1] \in tokens
IsPageLocal(href) == FirstIs(href, {"#", "javascript:"})
LooksAbsolute(href) == FirstIs(href, {"http:", "https:", "httpx"})
SameHost(href) ==
    /\ ParseURL(href).ok
    /\ ParseURL(href).hostname = ParseURL(url).hostname
RelHasNofollow(a) == a.rel # NoAttr /\ Includes(ToLowerCase(a.rel), S_nofollow)
\* the hrefs of a selection of the page's anchors
HrefsOf(selected) == {selected[i].href : i \in 1..Len(selected)}

\* C11 as stated: every href falls under exactly one rule: "#" and
\* "javascript:" hrefs are in no bucket; absolute hrefs of the page's host are
\* internal, of another host or unparseable external; every other href is
\* internal; a recorded link is also in nofollow iff its rel has "nofollow".
C11_EveryHrefOneRule ==
    "links" \in DOMAIN seo =>
       /\ UrlsOf("internal")
             = HrefsOf(SelectSeq(html.anchors, LAMBDA a :
                  /\ ~IsPageLocal(a.href)
                  /\ (LooksAbsolute(a.href) => SameHost(a.href))))
       /\ UrlsOf("external")
             = HrefsOf(SelectSeq(html.anchors, LAMBDA a :
                  ~IsPageLocal(a.href) /\ LooksAbsolute(a.href) /\ ~SameHost(a.href)))
       /\ UrlsOf("nofollow")
             = HrefsOf(SelectSeq(html.anchors, LAMBDA a : ~IsPageLocal(a.href) /\ RelHasNofollow(a)))
       /\ UrlsOf("internal") \cap UrlsOf("external") = {}
       /\ UrlsOf("nofollow") \subseteq UrlsOf("internal") \cup UrlsOf("external")

\* C11 as amended: the same rules for every non-empty href, an empty href being
\* recorded in no bucket; "absolute" is "starts with http".
C11_NonEmptyHrefOneRule ==
    "links" \in DOMAIN seo =>
       /\ UrlsOf("internal")
             = HrefsOf(SelectSeq(html.anchors, LAMBDA a :
                  /\ a.href # <<>> /\ ~IsPageLocal(a.href)
                  /\ (LooksAbsolute(a.href) => SameHost(a.href))))
       /\ UrlsOf("external")
             = HrefsOf(SelectSeq(html.anchors, LAMBDA a :
                  ~IsPageLocal(a.href) /\ LooksAbsolute(a.href) /\ ~SameHost(a.href)))
       /\ UrlsOf("nofollow")
             = HrefsOf(SelectSeq(html.anchors, LAMBDA a :
                  a.href # <<>> /\ ~IsPageLocal(a.href) /\ RelHasNofollow(a)))
       /\ \A i \in 1..Len(html.anchors) :
             (html.anchors[i].href = <<>> \/ IsPageLocal(html.anchors[i].href))
             => html.anchors[i].href
                   \notin UrlsOf("internal") \cup UrlsOf("external") \cup UrlsOf("nofollow")
       /\ UrlsOf("internal") \cap UrlsOf("external") = {}
       /\ UrlsOf("nofollow") \subseteq UrlsOf("internal") \cup UrlsOf("external")
       /\ seo["links"].broken = <<>>
\* a "#" link with rel nofollow, an unparseable http-looking href and a nofollow
\* link to the page's own host in upper case: external, internal and nofollow
\* hold one url each
C11_Witness ==
    /\ "links" \in DOMAIN seo
    /\ Len(html.anchors) = 3
    /\ \E i \in 1..3 : IsPageLocal(html.anchors[i].href) /\ RelHasNofollow(html.anchors[i])
    /\ UrlsOf("external") = {<<"httpx">>}
    /\ UrlsOf("internal") = {<<"https:", "//", "SITE.com", "/a">>}
    /\ UrlsOf("nofollow") = UrlsOf("internal")

====
